---- MODULE Spec2Model ----
(***************************************************************************)
(* Model of nimrud/utils/geometry.py: the VoxelFilter address codec, the   *)
(* nested_regions filter and the NestedOctree / NestedGrid partitioners.   *)
(*                                                                         *)
(* Coordinates are exact integers (numpy floats are modelled without       *)
(* rounding).  Index arrays (numpy int arrays in ascending order) are      *)
(* modelled as sets of 0-based indices.  Point clouds are sequences of     *)
(* points, a point is a tuple of coordinates.                              *)
(***************************************************************************)
EXTENDS Integers, Sequences, FiniteSets, TLC

VARIABLES
    tree,       \* the NestedOctree instance: its fields except cubes
    cubes,      \* NestedOctree.cubes
    calls,      \* number of partition() calls made on the instance
    caps,       \* caps[i]: max_population of the call that appended cubes[i]
    octants,    \* what the last run of the cube generator yielded (<<>>: not run)
    gen,        \* a running partition_generator(): what it has yielded, and whether it ended
    regions,    \* a call of nested_regions: its arguments and its result
    filter,     \* the VoxelFilter instance (or the arguments / failure of its construction)
    op          \* the last VoxelFilter method call: its name, input and output

vars == <<tree, cubes, calls, caps, octants, gen, regions, filter, op>>

----------------------------------------------------------------------------
(* Bounds of the model *)

\* partition() calls per instance
MaxCalls == 2
\* max_population ranges over 0..MaxPopulation
MaxPopulation == 2
\* sizes of the query set and of the search space of a NestedOctree
QuerySizes == {2, 3}
SearchSizes == {2}
\* the 3d points the clouds of a NestedOctree are drawn from
PointPool == {<<0, 0, 0>>, <<1, 1, 1>>, <<2, 2, 2>>, <<5, 1, 0>>}
\* buffer_radius values (the constructor rejects buffer_radius <= 0)
BufferRadii == {1, 3}

None == "None"

----------------------------------------------------------------------------
(* numpy helpers *)

\* points.min(0)[k] and points.max(0)[k], k a 1-based axis
ColMin(points, k) ==
    CHOOSE m \in {points[i][k] : i \in DOMAIN points} :
        \A i \in DOMAIN points : m <= points[i][k]

ColMax(points, k) ==
    CHOOSE m \in {points[i][k] : i \in DOMAIN points} :
        \A i \in DOMAIN points : m >= points[i][k]

Axes(points) == DOMAIN points[1]

PointsMin(points) == [k \in Axes(points) |-> ColMin(points, k)]
PointsMax(points) == [k \in Axes(points) |-> ColMax(points, k)]

\* max(v) of a vector
VecMax(v) == CHOOSE m \in {v[k] : k \in DOMAIN v} : \A k \in DOMAIN v : m >= v[k]

\* the clouds with coordinates multiplied by c (exact: used to compare against
\* half-integer bounds without fractions)
Scale(points, c) == [i \in DOMAIN points |-> [k \in DOMAIN points[i] |-> c * points[i][k]]]

\* all sequences over S with a length in lens
SeqsOf(S, lens) == UNION {[1..n -> S] : n \in lens}

----------------------------------------------------------------------------
(* nested_regions *)

\* region_indices with the rules of the high side left out
region_indices_lowonly(points, low_side, high_side) ==
    LET lowest_point == PointsMin(points)
        low_rules == {k \in DOMAIN low_side : lowest_point[k] < low_side[k]}
    IN  {i - 1 : i \in {j \in DOMAIN points :
            \A k \in low_rules : points[j][k] >= low_side[k]}}

\* region_indices: the indices (0-based) of the points between low_side and
\* high_side; a thresholding rule is applied only on an axis where some point
\* would be excluded by it
region_indices(points, low_side, high_side) ==
    LET lowest_point  == PointsMin(points)
        highest_point == PointsMax(points)
        low_rules  == {k \in DOMAIN low_side : lowest_point[k] < low_side[k]}
        high_rules == {k \in DOMAIN low_side : highest_point[k] > high_side[k]}
    IN  IF low_rules = {} /\ high_rules = {}
        THEN {i - 1 : i \in DOMAIN points}
        ELSE {i - 1 : i \in {j \in DOMAIN points :
                 /\ \A k \in low_rules  : points[j][k] >= low_side[k]
                 /\ \A k \in high_rules : points[j][k] <= high_side[k]}}

\* the pair (query_indices, search_indices)
nested_regions(query_set, search_space, buffer_radius, minimum_corner, maximum_corner) ==
    <<region_indices(query_set, minimum_corner, maximum_corner),
      region_indices(search_space,
                     [k \in DOMAIN minimum_corner |-> minimum_corner[k] - buffer_radius],
                     [k \in DOMAIN maximum_corner |-> maximum_corner[k] + buffer_radius])>>

----------------------------------------------------------------------------
(* NestedOctree *)

\* validate_input and the buffer radius check of the constructor
ValidOctreeInput(query_set, search_space, buffer_radius) ==
    /\ Len(query_set) >= 2 /\ \A i \in DOMAIN query_set : Len(query_set[i]) = 3
    /\ Len(search_space) >= 2 /\ \A i \in DOMAIN search_space : Len(search_space[i]) = 3
    /\ buffer_radius > 0

\* the instance the constructor leaves (cubes, empty, is the variable cubes)
NestedOctree(query_set, search_space, buffer_radius) ==
    [query_set      |-> query_set,
     search_space   |-> search_space,
     buffer_radius  |-> buffer_radius,
     maximum_corner |-> PointsMax(query_set),
     minimum_corner |-> PointsMin(query_set)]

\* an element of cubes that is a (query_indices, search_indices) tuple
Leaf(local_indices) ==
    [class |-> "tuple", query_indices |-> local_indices[1], search_indices |-> local_indices[2]]

\* the test of partition() off by one
PopulationLowEnoughOffByOne(size, max_population) == size <= max_population + 1

\* the test of partition(): is the population low enough in the bounding box
PopulationLowEnough(size, max_population) == size <= max_population

\* partition(max_population): a leaf is appended when the buffered search
\* population is within the cap; otherwise cube_edge is computed and nothing
\* else is done
Partition(max_population) ==
    /\ calls < MaxCalls
    /\ LET local_indices == nested_regions(tree.query_set, tree.search_space,
                                           tree.buffer_radius,
                                           tree.minimum_corner, tree.maximum_corner)
       IN  IF PopulationLowEnough(Cardinality(local_indices[2]), max_population)
           THEN /\ cubes' = Append(cubes, Leaf(local_indices))
                /\ caps' = Append(caps, max_population)
           ELSE UNCHANGED <<cubes, caps>>
    /\ calls' = calls + 1
    /\ UNCHANGED <<tree, octants, gen, regions, filter, op>>

\* list(product([0, 1], repeat=3))
cube_centers ==
    <<  <<0, 0, 0>>, <<0, 0, 1>>, <<0, 1, 0>>, <<0, 1, 1>>,
        <<1, 0, 0>>, <<1, 0, 1>>, <<1, 1, 0>>, <<1, 1, 1>>  >>

\* _naive_cube_generator(cube_edge) with cube_edge = twice_cube_edge / 2: the
\* index pairs of the 8 cubes, in order.  cube_edge may be a half-integer, so
\* the bounds and the clouds are both doubled, which leaves every comparison
\* of nested_regions as it is.
_naive_cube_generator(t, twice_cube_edge) ==
    [c \in DOMAIN cube_centers |->
        LET known_min_corner == [k \in 1..3 |->
                cube_centers[c][k] * twice_cube_edge + 2 * t.minimum_corner[k]]
            known_max_corner == [k \in 1..3 |-> known_min_corner[k] + twice_cube_edge]
        IN  nested_regions(Scale(t.query_set, 2), Scale(t.search_space, 2),
                           2 * t.buffer_radius, known_min_corner, known_max_corner)]

\* twice the cube_edge partition() computes: max(maximum_corner - minimum_corner) * 0.5
TwiceCubeEdge(t) == VecMax([k \in 1..3 |-> t.maximum_corner[k] - t.minimum_corner[k]])

\* cube_generator(cube_edge, "naive") run to its end with the cube_edge of partition()
CubeGenerator ==
    /\ octants = <<>>
    /\ octants' = _naive_cube_generator(tree, TwiceCubeEdge(tree))
    /\ UNCHANGED <<tree, cubes, calls, caps, gen, regions, filter, op>>

----------------------------------------------------------------------------
(* partition_generator *)

RECURSIVE partition_generator(_)
RECURSIVE cube_yields(_)

\* what the loop body of NestedOctree.partition_generator yields for one
\* element of cubes.  A NestedOctree child is iterated.  A tuple has no
\* partition_generator (AttributeError) and is yielded.  A NestedGrid has the
\* method, but its constructor sets no cubes attribute: the first step of its
\* generator raises AttributeError, which the same except clause catches.
cube_yields(this_cube) ==
    IF this_cube.class = "NestedOctree" THEN partition_generator(this_cube.cubes)
    ELSE IF this_cube.class = "NestedGrid" /\ "cubes" \in DOMAIN this_cube
         THEN this_cube.cubes
    ELSE <<this_cube>>

\* the sequence NestedOctree.partition_generator() yields over a cubes list
partition_generator(cs) ==
    IF cs = <<>> THEN <<>>
    ELSE cube_yields(Head(cs)) \o partition_generator(Tail(cs))

----------------------------------------------------------------------------
(* Specification of a NestedOctree instance *)

NoGen == [yielded |-> <<>>, done |-> FALSE]

Init ==
    /\ \E query_set \in SeqsOf(PointPool, QuerySizes),
          search_space \in SeqsOf(PointPool, SearchSizes),
          buffer_radius \in BufferRadii :
            /\ ValidOctreeInput(query_set, search_space, buffer_radius)
            /\ tree = NestedOctree(query_set, search_space, buffer_radius)
    /\ cubes = <<>>
    /\ calls = 0
    /\ caps = <<>>
    /\ octants = <<>>
    /\ gen = NoGen
    /\ regions = None
    /\ filter = None
    /\ op = None

Next ==
    \/ \E max_population \in 0..MaxPopulation : Partition(max_population)
    \/ CubeGenerator

Spec == Init /\ [][Next]_vars

----------------------------------------------------------------------------
(* Properties of a NestedOctree instance (specification Spec) *)

\* list(self.partition_generator()) in the current state
Yields == partition_generator(cubes)

NumQuery == Len(tree.query_set)

\* C1 (disjoint cover): after partition(max_population) the query_indices of
\* the yielded partitions are pairwise disjoint and their union is {0..N-1},
\* whether or not the root's buffered search population exceeds the cap.
C1_DisjointCover ==
    calls = 1 =>
        /\ UNION {Yields[i].query_indices : i \in DOMAIN Yields} = 0..(NumQuery - 1)
        /\ \A i, j \in DOMAIN Yields :
              i # j => Yields[i].query_indices \cap Yields[j].query_indices = {}

\* C2 (population bound): every yielded partition has at most max_population
\* search indices, max_population being the cap of the partition() call that
\* produced it.
C2_PopulationBound ==
    /\ Len(caps) = Len(Yields)
    /\ \A i \in DOMAIN Yields : Cardinality(Yields[i].search_indices) <= caps[i]

\* a partition was yielded whose search population is positive and equals the cap
C2_Witness ==
    /\ calls >= 1
    /\ \E i \in DOMAIN Yields :
          /\ Yields[i].search_indices # {}
          /\ Cardinality(Yields[i].search_indices) = caps[i]

\* C6 (monotonic containment): every search point of a yielded partition lies,
\* on every axis, within buffer_radius of the bounding box of the partition's
\* query points.
C6_Containment ==
    \A i \in DOMAIN Yields :
        LET box == [q \in 1..Cardinality(Yields[i].query_indices) |->
                      tree.query_set[1 + CHOOSE x \in Yields[i].query_indices :
                          Cardinality({y \in Yields[i].query_indices : y < x}) = q - 1]]
        IN  \A s \in Yields[i].search_indices : \A k \in 1..3 :
              /\ tree.search_space[s + 1][k] >= ColMin(box, k) - tree.buffer_radius
              /\ tree.search_space[s + 1][k] <= ColMax(box, k) + tree.buffer_radius

\* a partition was yielded that holds some search points and leaves others out
C6_Witness ==
    \E i \in DOMAIN Yields :
        /\ Yields[i].search_indices # {}
        /\ Yields[i].search_indices # {s - 1 : s \in DOMAIN tree.search_space}

\* C10 (octants cover the query set exactly once): the 8 boxes of the naive
\* cube generator, run with cube_edge = E/2, assign every query point of the
\* node to exactly one octant, points on a bisecting plane included (stated
\* for a node of positive edge E).
C10_ExactlyOneOctant ==
    (octants # <<>> /\ TwiceCubeEdge(tree) > 0) =>
        \A i \in 0..(NumQuery - 1) :
            Cardinality({c \in DOMAIN octants : i \in octants[c][1]}) = 1

\* the default of the minimum_factor parameter of partition()
minimum_factor == 3

\* the octants (indices into cube_centers) that hold at least one query point
OccupiedOctants ==
    {c \in DOMAIN cube_centers :
        _naive_cube_generator(tree, TwiceCubeEdge(tree))[c][1] # {}}

\* C11 (subdivision and termination): when partition(max_population,
\* minimum_factor) runs on a node whose buffered search population exceeds
\* max_population (the one call made appended no leaf), every octant with at
\* least one query point gets a child in cubes: a NestedOctree if
\* E/2 > minimum_factor * buffer_radius, a NestedGrid otherwise; the call
\* returns with every branch ending in a leaf or a grid (stated for a node of
\* positive edge E).
C11_Subdivision ==
    (calls = 1 /\ caps = <<>> /\ TwiceCubeEdge(tree) > 0) =>
        /\ Len(cubes) = Cardinality(OccupiedOctants)
        /\ \A i \in DOMAIN cubes :
              cubes[i].class =
                  IF TwiceCubeEdge(tree) > 2 * minimum_factor * tree.buffer_radius
                  THEN "NestedOctree" ELSE "NestedGrid"

\* every partition() call made so far appended, and all were given one cap
SameCapCalls ==
    /\ calls >= 1
    /\ Len(caps) = calls
    /\ \A i, j \in DOMAIN caps : caps[i] = caps[j]

\* C12 (repeated partition is idempotent): after one or more
\* partition(max_population) calls with the same cap on one instance,
\* partition_generator() yields what it yields after a single call (the one
\* root partition), and no query index is yielded in more than one partition.
C12_Idempotent ==
    SameCapCalls =>
        /\ Yields = <<Leaf(nested_regions(tree.query_set, tree.search_space,
                                          tree.buffer_radius,
                                          tree.minimum_corner, tree.maximum_corner))>>
        /\ \A i, j \in DOMAIN Yields :
              i # j => Yields[i].query_indices \cap Yields[j].query_indices = {}

\* C12 for a single call
C12_SingleCall ==
    calls = 1 => C12_Idempotent

----------------------------------------------------------------------------
(* Specification of partition_generator() over a tree of nodes (SpecGen) *)

\* cubes lists hold at most MaxCubes elements
MaxCubes == 2

\* two distinct (query_indices, search_indices) tuples
LeafPool == {Leaf(<<{0}, {0, 1}>>), Leaf(<<{1}, {1}>>)}

\* a NestedGrid as its constructor leaves it: query_set and search_space, no cubes
NestedGrid(query_set, search_space, buffer_radius, max_population) ==
    [class |-> "NestedGrid", query_set |-> query_set, search_space |-> search_space]

\* a NestedOctree child, of which the generator reads cubes only
OctreeChild(cs) == [class |-> "NestedOctree", cubes |-> cs]

GridPool == {NestedGrid(<<<<0, 0, 0>>, <<1, 1, 1>>>>, <<<<0, 0, 0>>, <<1, 1, 1>>>>, 1, 1)}

\* the elements of a child's cubes, and of the root's cubes
ChildItems == LeafPool \cup GridPool
RootItems == ChildItems \cup {OctreeChild(cs) : cs \in SeqsOf(ChildItems, 0..MaxCubes)}

InitGen ==
    /\ tree = NestedOctree(<<<<0, 0, 0>>, <<1, 1, 1>>>>, <<<<0, 0, 0>>, <<1, 1, 1>>>>, 1)
    /\ cubes \in SeqsOf(RootItems, 0..MaxCubes)
    /\ calls = 0
    /\ caps = <<>>
    /\ octants = <<>>
    /\ gen = NoGen
    /\ regions = None
    /\ filter = None
    /\ op = None

\* one next() on the generator: the next element, or its end (StopIteration)
GeneratorNext ==
    /\ ~gen.done
    /\ IF Len(gen.yielded) < Len(Yields)
       THEN gen' = [gen EXCEPT !.yielded = Append(@, Yields[Len(gen.yielded) + 1])]
       ELSE gen' = [gen EXCEPT !.done = TRUE]
    /\ UNCHANGED <<tree, cubes, calls, caps, octants, regions, filter, op>>

NextGen == GeneratorNext

SpecGen == InitGen /\ [][NextGen]_vars

RECURSIVE LeavesOf(_)
\* the leaf tuples of a tree, in depth-first order of the cubes lists; a
\* NestedGrid that holds no cubes has none
LeavesOf(cs) ==
    IF cs = <<>> THEN <<>>
    ELSE LET c == Head(cs)
         IN  (IF c.class = "tuple" THEN <<c>>
              ELSE IF "cubes" \in DOMAIN c THEN LeavesOf(c.cubes)
              ELSE <<>>) \o LeavesOf(Tail(cs))

\* C9 (generator traversal): partition_generator() yields exactly the leaf
\* tuples of the tree, in depth-first order, each once; a child node is never
\* itself yielded as if it were a partition; the sequence ends after the last
\* leaf.
C9_GeneratorTraversal ==
    /\ \A i \in DOMAIN gen.yielded : gen.yielded[i].class = "tuple"
    /\ gen.done => gen.yielded = LeavesOf(cubes)

\* C9 for the trees that hold no NestedGrid
C9_GeneratorTraversalNoGrid ==
    (/\ \A i \in DOMAIN cubes : cubes[i].class # "NestedGrid"
     /\ \A i \in DOMAIN cubes : cubes[i].class = "NestedOctree" =>
            \A j \in DOMAIN cubes[i].cubes : cubes[i].cubes[j].class # "NestedGrid")
        => C9_GeneratorTraversal

----------------------------------------------------------------------------
(* Specification of nested_regions as a function of its arguments (SpecRegions) *)

\* clouds drawn from RegionPool hold 1..MaxRegionPoints points
MaxRegionPoints == 2
\* 2d points of the clouds, and corners of the box
RegionPool == {<<0, 0>>, <<5, 5>>, <<10, 0>>, <<-3, -3>>}
\* buffer_radius values
RegionRadii == {0, 2}

\* the clouds of a documented example
ExampleQuery == << <<0, 0>>, <<5, 5>>, <<10, 10>> >>
ExampleSearch == << <<0, 0>>, <<5, 5>>, <<10, 10>>, <<-3, -3>> >>

RegionClouds == SeqsOf(RegionPool, 1..MaxRegionPoints)

InitRegions ==
    /\ \E query_set \in RegionClouds \cup {ExampleQuery},
          search_space \in RegionClouds \cup {ExampleSearch} :
            regions = [query_set |-> query_set, search_space |-> search_space,
                       called |-> FALSE, buffer_radius |-> 0,
                       minimum_corner |-> <<0, 0>>, maximum_corner |-> <<0, 0>>,
                       result |-> <<{}, {}>>]
    /\ tree = None
    /\ cubes = <<>>
    /\ calls = 0
    /\ caps = <<>>
    /\ octants = <<>>
    /\ gen = NoGen
    /\ filter = None
    /\ op = None

\* a call nested_regions(query_set, search_space, buffer_radius, minimum_corner, maximum_corner)
\* (the function keeps no state: one call per behaviour reaches every result)
NestedRegionsCall(buffer_radius, minimum_corner, maximum_corner) ==
    /\ ~regions.called
    /\ regions' = [regions EXCEPT
                      !.called = TRUE,
                      !.buffer_radius = buffer_radius,
                      !.minimum_corner = minimum_corner,
                      !.maximum_corner = maximum_corner,
                      !.result = nested_regions(regions.query_set, regions.search_space,
                                                buffer_radius, minimum_corner, maximum_corner)]
    /\ UNCHANGED <<tree, cubes, calls, caps, octants, gen, filter, op>>

NextRegions ==
    \E buffer_radius \in RegionRadii, minimum_corner \in RegionPool, maximum_corner \in RegionPool :
        NestedRegionsCall(buffer_radius, minimum_corner, maximum_corner)

SpecRegions == InitRegions /\ [][NextRegions]_vars

\* C5 (nested_regions equals the unoptimised filter): query_indices is the set
\* of i with minimum_corner[k] <= query_set[i][k] <= maximum_corner[k] on every
\* axis k, search_indices the same for search_space with the box grown by
\* buffer_radius; on the documented example the result is ([0,1], [0,1]).
C5_ReferenceFilter ==
    regions.called =>
        /\ regions.result[1] =
              {i \in 0..(Len(regions.query_set) - 1) :
                  \A k \in 1..2 :
                      /\ regions.minimum_corner[k] <= regions.query_set[i + 1][k]
                      /\ regions.query_set[i + 1][k] <= regions.maximum_corner[k]}
        /\ regions.result[2] =
              {i \in 0..(Len(regions.search_space) - 1) :
                  \A k \in 1..2 :
                      /\ regions.minimum_corner[k] - regions.buffer_radius
                            <= regions.search_space[i + 1][k]
                      /\ regions.search_space[i + 1][k]
                            <= regions.maximum_corner[k] + regions.buffer_radius}
        /\ ( /\ regions.query_set = ExampleQuery
             /\ regions.search_space = ExampleSearch
             /\ regions.buffer_radius = 2
             /\ regions.minimum_corner = <<0, 0>>
             /\ regions.maximum_corner = <<5, 5>> )
           => regions.result = <<{0, 1}, {0, 1}>>

\* the documented example was run: the rule of the low side is skipped for the
\* query set and applied to the search space, and both results are [0, 1]
C5_Witness ==
    /\ regions.called
    /\ regions.query_set = ExampleQuery
    /\ regions.search_space = ExampleSearch
    /\ regions.buffer_radius = 2
    /\ regions.minimum_corner = <<0, 0>>
    /\ regions.maximum_corner = <<5, 5>>
    /\ regions.result = <<{0, 1}, {0, 1}>>

----------------------------------------------------------------------------
(* VoxelFilter *)

\* Lengths are whole numbers of a unit chosen so that edge_length is even:
\* edge_length / 2 is then exact.

MAX_ADDRESS_LENGTH == 64

\* sum(v) and np.cumsum(v) of a sequence
RECURSIVE SeqSum(_)
SeqSum(v) == IF v = <<>> THEN 0 ELSE Head(v) + SeqSum(Tail(v))

CumSum(v) == [i \in DOMAIN v |-> SeqSum(SubSeq(v, 1, i))]

RECURSIVE CeilLog2(_, _)
\* np.ceil(np.log2(span / edge_length)) for span >= edge_length > 0: the least
\* w with edge_length * 2^w >= span
CeilLog2(span, edge_length) ==
    IF span <= edge_length THEN 0 ELSE 1 + CeilLog2(span, 2 * edge_length)

\* the shape checks of the constructor
ValidVoxelInput(points) ==
    /\ Len(points) >= 2
    /\ Len(points[1]) \in {2, 3}

\* address_widths of _calculate_shift
AddressWidths(minimum_corner, maximum_corner, edge_length) ==
    [k \in DOMAIN minimum_corner |->
        CeilLog2(maximum_corner[k] - minimum_corner[k], edge_length)]

\* _calculate_shift: the shifts (one per axis after the first) and the widths,
\* or the ValueError of a region that cannot be addressed
_calculate_shift(minimum_corner, maximum_corner, edge_length) ==
    LET address_widths == AddressWidths(minimum_corner, maximum_corner, edge_length)
    IN  IF SeqSum(address_widths) > MAX_ADDRESS_LENGTH
        THEN [ok |-> FALSE, error |-> "edge length is too small to address this space",
              shifts |-> <<>>, widths |-> <<>>]
        ELSE [ok |-> TRUE, error |-> "",
              shifts |-> SubSeq(CumSum(address_widths), 1, Len(address_widths) - 1),
              widths |-> address_widths]

\* a bit mask is the set of the positions of its one-bits
\* int("0b" + "1" * this_width, base=2), for this_width >= 1
Ones(this_width) == 0..(this_width - 1)

\* mask << this_shift
ShiftLeft(mask, this_shift) == {b + this_shift : b \in mask}

\* _calculate_masks: int("0b", base=2) raises ValueError for a width of 0
_calculate_masks(widths, shifts) ==
    IF \E k \in DOMAIN widths : widths[k] = 0
    THEN [ok |-> FALSE, error |-> "invalid literal for int() with base 2: '0b'", masks |-> <<>>]
    ELSE [ok |-> TRUE, error |-> "",
          masks |-> [k \in DOMAIN widths |->
                        IF k = 1 THEN Ones(widths[k])
                        ELSE ShiftLeft(Ones(widths[k]), shifts[k - 1])]]

\* the arguments of a construction that has not run yet
VoxelArgs(points, edge_length) ==
    [status |-> "args", points |-> points, edge_length |-> edge_length, error |-> "",
     minimum_corner |-> <<>>, maximum_corner |-> <<>>,
     shifts |-> <<>>, widths |-> <<>>, masks |-> <<>>]

\* VoxelFilter.__init__(points, edge_length): the instance, or the failure
VoxelFilterInit ==
    /\ filter.status = "args"
    /\ ValidVoxelInput(filter.points)
    /\ LET half == filter.edge_length \div 2
           minimum_corner == [k \in Axes(filter.points) |-> ColMin(filter.points, k) - half]
           maximum_corner == [k \in Axes(filter.points) |-> ColMax(filter.points, k) + half]
           sw == _calculate_shift(minimum_corner, maximum_corner, filter.edge_length)
           ms == _calculate_masks(sw.widths, sw.shifts)
       IN  IF ~sw.ok
           THEN filter' = [filter EXCEPT !.status = "failed", !.error = sw.error]
           ELSE IF ~ms.ok
           THEN filter' = [filter EXCEPT !.status = "failed", !.error = ms.error]
           ELSE filter' = [filter EXCEPT !.status = "built",
                                         !.minimum_corner = minimum_corner,
                                         !.maximum_corner = maximum_corner,
                                         !.shifts = sw.shifts,
                                         !.widths = sw.widths,
                                         !.masks = ms.masks]
    /\ UNCHANGED <<tree, cubes, calls, caps, octants, gen, regions, op>>

----------------------------------------------------------------------------
(* Specification of the construction of a VoxelFilter (SpecGrid) *)

\* edge_length values (even, see above)
EdgeLengths == {2, 4}
\* a coordinate far enough for three axes to need more than 64 address bits
FarCoord == 16777216
\* coordinates of the points of the cloud
GridCoords == {0, 3, 6, FarCoord}
\* clouds of two points, 2d and 3d
GridClouds == UNION {[1..2 -> [1..d -> GridCoords]] : d \in {2, 3}}

NoOp == [name |-> "none", ok |-> TRUE, error |-> "", input |-> <<>>, output |-> <<>>]

InitGrid ==
    /\ \E points \in GridClouds, edge_length \in EdgeLengths :
          filter = VoxelArgs(points, edge_length)
    /\ op = NoOp
    /\ tree = None
    /\ cubes = <<>>
    /\ calls = 0
    /\ caps = <<>>
    /\ octants = <<>>
    /\ gen = NoGen
    /\ regions = None

NextGrid == VoxelFilterInit

SpecGrid == InitGrid /\ [][NextGrid]_vars

\* C7 (grid construction postcondition): for a cloud of at least 2 points of
\* dimension 2 or 3 whose total bit width sum(ceil(log2(span[i]/edge_length)))
\* is <= 64 (clouds flat on some axis included) construction completes with
\* bit_shift[0] = 0 (the first axis has no shift entry), bit_shift[i] =
\* sum(bit_width[0..i-1]) and bit_mask[i] = (2^bit_width[i]-1) << bit_shift[i],
\* the masks pairwise disjoint and covering exactly the low sum(bit_width)
\* bits; when the total exceeds 64 construction fails.
C7_GridPostcondition ==
    filter.status # "args" =>
        LET d == Len(filter.points[1])
            bit_width == [k \in 1..d |->
                CeilLog2(ColMax(filter.points, k) - ColMin(filter.points, k)
                            + filter.edge_length, filter.edge_length)]
            bit_shift == [k \in 1..d |-> SeqSum(SubSeq(bit_width, 1, k - 1))]
        IN  IF SeqSum(bit_width) <= 64
            THEN /\ filter.status = "built"
                 /\ Len(filter.shifts) = d - 1
                 /\ \A k \in 2..d : filter.shifts[k - 1] = bit_shift[k]
                 /\ filter.widths = bit_width
                 /\ \A k \in 1..d :
                       filter.masks[k] = bit_shift[k]..(bit_shift[k] + bit_width[k] - 1)
                 /\ \A j, k \in 1..d : j # k => filter.masks[j] \cap filter.masks[k] = {}
                 /\ UNION {filter.masks[k] : k \in 1..d} = 0..(SeqSum(bit_width) - 1)
            ELSE filter.status = "failed"

\* C7 without the clouds that are flat on some axis
C7_GridPostconditionNotFlat ==
    (\A k \in Axes(filter.points) : ColMax(filter.points, k) # ColMin(filter.points, k))
        => C7_GridPostcondition

----------------------------------------------------------------------------
(* VoxelFilter: coordinates to addresses and back *)

\* the bounds test of _check_in_bounds with the upper bound exclusive
InBoundsExclusive(f, check_points) ==
    /\ \A k \in Axes(check_points) : ~(ColMin(check_points, k) < f.minimum_corner[k])
    /\ \A k \in Axes(check_points) : ~(ColMax(check_points, k) >= f.maximum_corner[k])

\* the bounds test of _check_in_bounds: no column minimum below minimum_corner,
\* no column maximum above maximum_corner
InBounds(f, check_points) ==
    /\ \A k \in Axes(check_points) : ~(ColMin(check_points, k) < f.minimum_corner[k])
    /\ \A k \in Axes(check_points) : ~(ColMax(check_points, k) > f.maximum_corner[k])

\* _check_in_bounds(points), points a non-empty sequence of points of one
\* dimension (a 2d array, or one point made 2d by np.atleast_2d): "" or the
\* message of the ValueError
_check_in_bounds(f, check_points) ==
    IF Len(check_points[1]) # Len(f.shifts) + 1
    THEN "wrong number of spatial dimensions"
    ELSE IF ~InBounds(f, check_points)
    THEN "some points fall outside filter bounding region"
    ELSE ""

\* np.floor((points - minimum_corner) / edge_length) of one in-bounds point
VoxelCoordinates(f, point) ==
    [k \in DOMAIN point |-> (point[k] - f.minimum_corner[k]) \div f.edge_length]

RECURSIVE ShiftedSum(_, _, _)
\* the sum over the columns from col on of the voxel coordinates, each column
\* after the first shifted left by its shift
ShiftedSum(f, voxel_coordinates, col) ==
    IF col > Len(voxel_coordinates) THEN 0
    ELSE (IF col = 1 THEN voxel_coordinates[col]
          ELSE voxel_coordinates[col] * 2 ^ f.shifts[col - 1])
         + ShiftedSum(f, voxel_coordinates, col + 1)

\* coordinate_to_address(points): the addresses, or the ValueError of
\* _check_in_bounds and no address
coordinate_to_address(f, points) ==
    LET error == _check_in_bounds(f, points)
    IN  IF error # ""
        THEN [ok |-> FALSE, error |-> error, output |-> <<>>]
        ELSE [ok |-> TRUE, error |-> "",
              output |-> [i \in DOMAIN points |->
                            ShiftedSum(f, VoxelCoordinates(f, points[i]), 1)]]

RECURSIVE MaskValue(_)
\* the number whose one-bits are at the positions in mask
MaskValue(mask) ==
    IF mask = {} THEN 0
    ELSE LET b == CHOOSE x \in mask : TRUE IN 2 ^ b + MaskValue(mask \ {b})

\* address & this_mask, for address >= 0
BitAnd(address, this_mask) ==
    MaskValue({b \in this_mask : (address \div 2 ^ b) % 2 = 1})

\* address_to_coordinate(addresses): the centers of the addressed voxels
address_to_coordinate(f, addresses) ==
    [i \in DOMAIN addresses |->
        [k \in DOMAIN f.masks |->
            LET masked == BitAnd(addresses[i], f.masks[k])
                voxel_coordinate == IF k = 1 THEN masked
                                    ELSE masked \div 2 ^ f.shifts[k - 1]
            IN  voxel_coordinate * f.edge_length + f.minimum_corner[k]
                    + f.edge_length \div 2]]

\* a call filter.address_to_coordinate(addresses) on addresses the filter returned
AddressToCoordinate ==
    /\ filter.status = "built"
    /\ op.name = "coordinate_to_address" /\ op.ok
    /\ op' = [name |-> "address_to_coordinate", ok |-> TRUE, error |-> "",
              input |-> op.output, output |-> address_to_coordinate(filter, op.output)]
    /\ UNCHANGED <<tree, cubes, calls, caps, octants, gen, regions, filter>>

----------------------------------------------------------------------------
(* Specification of a VoxelFilter and its address methods (SpecVoxel) *)

\* coordinates of the 2d clouds
VoxelCoords == {0, 1, 6}
\* the points of the 3d clouds
VoxelPool3 == {<<0, 0, 0>>, <<1, 6, 6>>, <<6, 1, 0>>}
VoxelClouds == [1..2 -> [1..2 -> VoxelCoords]] \cup [1..2 -> VoxelPool3]
\* how far beyond the corners of the filter the points given to it reach
ProbeMargin == 1

\* coordinates given on axis k: around and on both corners, and one edge
\* length above the minimum corner
ProbeCoords(f, k) ==
    {f.minimum_corner[k] - m : m \in 1..ProbeMargin}
        \cup {f.minimum_corner[k], f.minimum_corner[k] + f.edge_length, f.maximum_corner[k]}
        \cup {f.maximum_corner[k] + m : m \in 1..ProbeMargin}

ProbePoints(f) ==
    {p \in [DOMAIN f.minimum_corner -> UNION {ProbeCoords(f, k) : k \in DOMAIN f.minimum_corner}] :
        \A k \in DOMAIN p : p[k] \in ProbeCoords(f, k)}

\* the batches given to coordinate_to_address: every single point, pairs of
\* points, and a point of the other dimension
Batches(f) ==
    LET d == Len(f.minimum_corner)
        probes == ProbePoints(f)
        firsts == IF d = 2 THEN probes ELSE {f.points[i] : i \in DOMAIN f.points}
    IN  {<<p>> : p \in probes}
            \cup {<<p, q>> : p \in firsts, q \in probes}
            \cup {<<[k \in 1..(5 - d) |-> IF k <= d THEN f.minimum_corner[k] ELSE 0]>>}

\* a call filter.coordinate_to_address(points) (the method keeps no state: one
\* call per behaviour reaches every result)
CoordinateToAddress ==
    /\ filter.status = "built"
    /\ op.name = "none"
    /\ \E points \in Batches(filter) :
          LET r == coordinate_to_address(filter, points)
          IN  op' = [name |-> "coordinate_to_address", ok |-> r.ok, error |-> r.error,
                     input |-> points, output |-> r.output]
    /\ UNCHANGED <<tree, cubes, calls, caps, octants, gen, regions, filter>>

InitVoxel ==
    /\ \E points \in VoxelClouds, edge_length \in EdgeLengths :
          filter = VoxelArgs(points, edge_length)
    /\ op = NoOp
    /\ tree = None
    /\ cubes = <<>>
    /\ calls = 0
    /\ caps = <<>>
    /\ octants = <<>>
    /\ gen = NoGen
    /\ regions = None

NextVoxel ==
    \/ VoxelFilterInit
    \/ CoordinateToAddress
    \/ AddressToCoordinate

SpecVoxel == InitVoxel /\ [][NextVoxel]_vars

Encoded == op.name = "coordinate_to_address" /\ op.ok

\* C3 (round trip on cell centers): for every address a that
\* coordinate_to_address returned for a point within [minimum_corner,
\* maximum_corner], coordinate_to_address(address_to_coordinate([a])) succeeds
\* and equals [a].
C3_RoundTrip ==
    Encoded =>
        \A i \in DOMAIN op.output :
            LET again == coordinate_to_address(filter,
                            address_to_coordinate(filter, <<op.output[i]>>))
            IN  again.ok /\ again.output = <<op.output[i]>>

\* C4 (address injectivity): two accepted points have equal addresses if and
\* only if floor((p[k]-minimum_corner[k])/edge_length) agrees on every axis k.
C4_Injective ==
    Encoded =>
        \A i, j \in DOMAIN op.input :
            (op.output[i] = op.output[j])
                <=> \A k \in DOMAIN filter.minimum_corner :
                        (op.input[i][k] - filter.minimum_corner[k]) \div filter.edge_length
                      = (op.input[j][k] - filter.minimum_corner[k]) \div filter.edge_length

\* a point of the batch is out of the inclusive bounds on some axis
SomePointOutside ==
    \E i \in DOMAIN op.input : \E k \in DOMAIN filter.minimum_corner :
        \/ op.input[i][k] < filter.minimum_corner[k]
        \/ op.input[i][k] > filter.maximum_corner[k]

\* C8 (eager validation of encode): coordinate_to_address fails, returning no
\* address at all, if and only if the input has another dimensionality than
\* the filter or some point is strictly below minimum_corner or strictly above
\* maximum_corner on some axis; otherwise it returns one address per point.
C8_EagerValidation ==
    op.name = "coordinate_to_address" =>
        /\ ~op.ok <=> (\/ Len(op.input[1]) # Len(filter.minimum_corner)
                       \/ SomePointOutside)
        /\ ~op.ok => op.output = <<>>
        /\ op.ok => Len(op.output) = Len(op.input)

\* a batch of two was rejected whole: its first point lies exactly on
\* maximum_corner, its second is out of bounds
C8_Witness ==
    /\ op.name = "coordinate_to_address"
    /\ Len(op.input) = 2
    /\ op.input[1] = filter.maximum_corner
    /\ \E k \in DOMAIN filter.minimum_corner : op.input[2][k] > filter.maximum_corner[k]
    /\ ~op.ok
    /\ op.output = <<>>

\* a point lying exactly on maximum_corner was accepted
C8_BoundaryAccepted ==
    /\ Encoded
    /\ op.input = <<filter.maximum_corner>>

====
